---- MODULE Spec2Model ----
(***************************************************************************)
(* The request router of nimbus.io (web_director/router.py): the Router    *)
(* object, the _supervise_db_interaction decorator, check_availability     *)
(* and route.  Greenlets are cooperative: a task runs from one suspension  *)
(* point (lock wait, directory query, DNS resolution, redis hmget, sleep)  *)
(* to the next without interruption, so every action below is the code     *)
(* between two suspension points.                                          *)
(*                                                                         *)
(* Encoding.  TLC compares only values of one sort, so Python's None is    *)
(* the integer -1 where the other values are integers (cluster ids,        *)
(* object references, elapsed seconds) and NoHostname where the other      *)
(* values are hostnames.  A hostname is the sequence of its characters.    *)
(*                                                                         *)
(* Time.  `since_start' of a call is time.time() - start, the only way     *)
(* the code looks at the clock.  A sleep or a read may take any time, so   *)
(* the model keeps one value for each range the code distinguishes: 0,     *)
(* RETRY_DELAY for 1..AVAILABILITY_TIMEOUT, AVAILABILITY_TIMEOUT + 1 for   *)
(* anything later.                                                         *)
(*                                                                         *)
(* `outcome' holds the attempt of route that has just ended (returned, or  *)
(* gone to sleep before a retry) with the locals it ended with; the proxy  *)
(* takes it before any other greenlet runs.                                *)
(*                                                                         *)
(* `trace' holds, for the step just taken, the releases of the directory   *)
(* lock and the cache writes in the order the code makes them, each with   *)
(* the holder of the lock at that moment.  `directory' is the collection   *)
(* table with the number of changes made to it; it changes only in         *)
(* SpecDirectory, and `cached_reads' keeps for each cached collection      *)
(* the version of the table its value was read from.                       *)
(*                                                                         *)
(* Specifications.  Spec: concurrent calls.  SpecSerial: one call at a     *)
(* time, with wider inputs.  SpecWaiting: calls that wait for a host,      *)
(* with fairness.  SpecDirectory: concurrent calls while the collection    *)
(* table changes.                                                          *)
(*                                                                         *)
(* Not modelled: request_counter (log correlation only), failures of DNS   *)
(* resolution, LRU eviction (COLLECTION_CACHE_SIZE is 500000).             *)
(***************************************************************************)
EXTENDS Integers, Sequences, FiniteSets, TLC

\* ------------------------------------------------------------ bounds
NumTasks == 2
MaxCalls == 3           \* route calls of a run with concurrent calls
MaxSerialCalls == 4     \* route calls of a run with one call at a time
MaxDbErrors == 1        \* OperationalErrors of the directory in a run
MaxWaitingCalls == 2    \* route calls of a run in which calls wait for a host
MaxDirectoryCalls == 3  \* route calls of a run in which the directory changes
MaxDirectoryChanges == 1 \* changes of the collection table in such a run
MaxMemoizerCalls == 2   \* route calls of a run in which the connection fails
MaxMemoizerErrors == 2  \* OperationalErrors of the directory in such a run

Tasks == 1..NumTasks

\* ------------------------------------------------- program constants
RETRY_DELAY == 1
AVAILABILITY_TIMEOUT == 30
NOT_FOUND == 404
SERVICE_UNAVAILABLE == 503

None == -1
NoHostname == <<"None">>

\* ----------------------------------------------------- configuration
NIMBUS_IO_SERVICE_DOMAIN == <<"i", "o">>
NIMBUSIO_WEB_SERVER_PORT == 80
NIMBUSIO_WEB_WRITER_PORT == 8088
NIMBUSIO_MANAGEMENT_API_REQUEST_DEST == <<"m1", "m2", "m3">>

\* ----------------------------------------------- the central directory
CollectionTable ==
    { [name |-> <<"a">>, cluster_id |-> 1],
      [name |-> <<"e">>, cluster_id |-> 2] }

NodeTable ==
    { [name |-> "n3", hostname |-> "h3", node_number_in_cluster |-> 3, cluster_id |-> 1],
      [name |-> "n1", hostname |-> "h1", node_number_in_cluster |-> 1, cluster_id |-> 1],
      [name |-> "n2", hostname |-> "h2", node_number_in_cluster |-> 2, cluster_id |-> 1],
      [name |-> "n9", hostname |-> "h9", node_number_in_cluster |-> 1, cluster_id |-> 3] }

\* ------------------------------------------------ inputs of route calls
Hostnames ==
    { NoHostname,
      <<"a", ".", "c", "o">>,
      NIMBUS_IO_SERVICE_DOMAIN,
      <<"a", ".", "i", "o">>,
      <<"e", ".", "i", "o">>,
      <<"g", ".", "i", "o">> }

Methods == { "GET", "PUT", "OPTIONS" }

\* the inputs of a run with one call at a time
SerialHostnames == Hostnames \cup { <<"x", "i", "o">> }

SerialMethods == { "GET", "HEAD", "POST", "PUT", "PATCH", "DELETE", "OPTIONS", "get" }

\* values the liveness hash can hold for a key (None: no such field)
RedisValues == { "None", "{\"reachable\": true}", "{\"reachable\": false}", "garbage" }

\* ------------------------------------------------------ pure helpers
Range(q) == { q[i] : i \in 1..Len(q) }

\* str.endswith
EndsWith(str, suffix) ==
    /\ Len(str) >= Len(suffix)
    /\ SubSeq(str, Len(str) - Len(suffix) + 1, Len(str)) = suffix

\* line 273 without the test of the suffix
HostnameRejectedNoneOnly(hostname) == hostname = NoHostname

\* route, line 273
HostnameRejected(hostname) ==
    hostname = NoHostname \/ ~EndsWith(hostname, NIMBUS_IO_SERVICE_DOMAIN)

\* Router._parse_collection: hostname[:offset], offset negative
_parse_collection(hostname) ==
    LET offset == -1 * (Len(NIMBUS_IO_SERVICE_DOMAIN) + 1)
        stop == IF Len(hostname) + offset < 0 THEN 0 ELSE Len(hostname) + offset
    IN  SubSeq(hostname, 1, stop)

\* lines 287-292 with the two tiers exchanged
DestPortSwapped(method) ==
    IF method \in { "POST", "DELETE", "PUT", "PATCH" } THEN NIMBUSIO_WEB_SERVER_PORT
    ELSE IF method \in { "HEAD", "GET" } THEN NIMBUSIO_WEB_WRITER_PORT
    ELSE None

\* route, lines 287-292: the port, or None when dest_port stays unbound
DestPort(method) ==
    IF method \in { "POST", "DELETE", "PUT", "PATCH" } THEN NIMBUSIO_WEB_WRITER_PORT
    ELSE IF method \in { "HEAD", "GET" } THEN NIMBUSIO_WEB_SERVER_PORT
    ELSE None

\* a routing decision: dict(remote = ...), dict(close = ...), or the
\* exception that ends the call
Decision(kind, target, port, code, phrase, body) ==
    [ kind |-> kind, target |-> target, port |-> port,
      code |-> code, phrase |-> phrase, body |-> body ]

NoResult == Decision("none", "", None, None, "", "")

\* dict(remote = "%s:%d" % (target, dest_port)) and dict(remote = target)
Remote(target, dest_port) == Decision("remote", target, dest_port, None, "", "")

Raised(exception) == Decision("raise", "", None, None, "", exception)

\* Router._reject
_reject(code, reason) ==
    LET http_error_str ==
            IF code = 404 THEN "Not Found"
            ELSE IF code = 400 THEN "Bad Request"
            ELSE IF code = 503 THEN "Service Unavailable"
            ELSE "unknown"
    IN  Decision("close", "", None, code, http_error_str,
                 IF reason = "None" THEN http_error_str ELSE reason)

\* deque.rotate(-1), which route does not call
RotateLeft(q) ==
    IF Len(q) = 0 THEN q
    ELSE SubSeq(q, 2, Len(q)) \o <<q[1]>>

\* deque.reverse() in the place of deque.rotate(1)
RotateReversed(q) == [ i \in 1..Len(q) |-> q[Len(q) + 1 - i] ]

\* deque.rotate(0): the deque stays as it is
RotateNot(q) == q

\* deque.rotate(1): the last element becomes the head
Rotate(q) ==
    IF Len(q) = 0 THEN q
    ELSE <<q[Len(q)]>> \o SubSeq(q, 1, Len(q) - 1)

RECURSIVE RotateBy(_, _)
RotateBy(q, k) == IF k = 0 THEN q ELSE RotateBy(Rotate(q), k - 1)

\* the body of Router._db_cluster_for_collection, on the rows the collection
\* table has when it is read
DbClusterForCollection(table, collection) ==
    LET rows == { r \in table : r.name = collection }
    IN  IF rows = {} THEN None ELSE (CHOOSE r \in rows : TRUE).cluster_id

\* 'order by node_number_in_cluster'
RECURSIVE OrderByNodeNumber(_)
OrderByNodeNumber(rows) ==
    IF rows = {} THEN <<>>
    ELSE LET first == CHOOSE r \in rows :
                        \A o \in rows : r.node_number_in_cluster <= o.node_number_in_cluster
         IN  <<first>> \o OrderByNodeNumber(rows \ {first})

\* _db_cluster_info without 'where cluster_id=%s'
DbClusterInfoAllNodes(cluster_id) ==
    LET rows == OrderByNodeNumber(NodeTable)
    IN  [ i \in 1..Len(rows) |-> rows[i].hostname ]

\* the body of Router._db_cluster_info: the host deque of the new record
DbClusterInfo(cluster_id) ==
    LET rows == OrderByNodeNumber({ r \in NodeTable : r.cluster_id = cluster_id })
    IN  [ i \in 1..Len(rows) |-> rows[i].hostname ]

\* line 73 without the use of the cached value: every caller queries
NeverTruthy(result) == FALSE

\* 'if result:' in the decorator, for a cluster id or None
Truthy(result) == result /= None /\ result /= 0

\* tools.LRUCache: 'key in cache', cache.get(key, default) and
\* cache[key] = value, below the capacity of the cache
LRUContains(cache, key) == key \in DOMAIN cache

LRUGet(cache, key, default) == IF key \in DOMAIN cache THEN cache[key] ELSE default

LRUPut(cache, key, value) == (key :> value) @@ cache

\* line 161 as 'if self.known_collections.get(collection):'
InKnownCollectionsTruthy(cache, collection) == Truthy(LRUGet(cache, collection, None))

\* Router._cluster_for_collection, line 161
InKnownCollections(cache, collection) == LRUContains(cache, collection)

\* socket.gethostbyname
gethostbyname(host) == <<"ip", host>>

\* REDIS_WEB_MONITOR_HASHKEY_FORMAT % (a, dest_port)
RedisKey(address, dest_port) == <<address, ":", dest_port>>

\* json.loads(val)["reachable"]; "error" when val does not decode
JsonReachable(val) ==
    IF val = "{\"reachable\": true}" THEN "true"
    ELSE IF val = "{\"reachable\": false}" THEN "false"
    ELSE "error"

\* lines 214-219 without available.update(hosts)
AvailableOnRedisErrorNone(hosts) == {}

\* check_availability, lines 214-219: the set returned on RedisError
AvailableOnRedisError(hosts) == Range(hosts)

\* lines 221-242 without the rule for 'every host unknown'
AvailableFromValuesStrict(hosts, redis_values) ==
    { hosts[idx] : idx \in { i \in 1..Len(redis_values) :
                                JsonReachable(redis_values[i]) = "true" } }

\* check_availability, lines 221-242: hosts is the deque as it is when the
\* values arrive, redis_values are in the order of the keys that were sent
AvailableFromValues(hosts, redis_values) ==
    LET unknown == { idx \in 1..Len(redis_values) : redis_values[idx] = "None" }
        reachable == { hosts[idx] : idx \in
                        { i \in 1..Len(redis_values) :
                            /\ redis_values[i] /= "None"
                            /\ JsonReachable(redis_values[i]) = "true" } }
    IN  IF unknown /= {} /\ Cardinality(unknown) = Len(hosts)
        THEN reachable \cup Range(hosts)
        ELSE reachable

\* line 280 with rotate(-1)
ManagementRotatedLeft(dest_hosts) == RotateLeft(dest_hosts)

\* route, line 280
ManagementRotated(dest_hosts) == Rotate(dest_hosts)

\* lines 306-310 with a single rotate(1) in the place of the loop
RotationsOnce(hosts, availability) == IF Len(hosts) = 0 THEN 0 ELSE 1

\* route, lines 306-310: number of rotate(1) calls the for loop makes
Rotations(hosts, availability) ==
    LET hits == { k \in 1..Len(hosts) : RotateBy(hosts, k)[1] \in availability }
    IN  IF hits = {} THEN Len(hosts)
        ELSE CHOOSE k \in hits : \A j \in hits : k <= j

\* line 318 with RETRY_DELAY in the place of AVAILABILITY_TIMEOUT
TimedOutAfterDelay(since) == since >= RETRY_DELAY

\* line 318 with a deadline that no call reaches
TimedOutNever(since) == since > AVAILABILITY_TIMEOUT + RETRY_DELAY

\* route, line 318: now - start > AVAILABILITY_TIMEOUT
TimedOut(since) == since > AVAILABILITY_TIMEOUT

\* ------------------------------------------------------------- state
VARIABLES
    task,               \* per greenlet: position and locals of its route call
    known_collections,  \* Router.known_collections: collection -> cluster id | None
    known_clusters,     \* Router.known_clusters: cluster id -> reference of its record
    deques,             \* the host deques of the cluster records, by reference
    management_api_request_dest_hosts,
    dblock,             \* Router.dblock: the holding task, or None
    conn,               \* Router.conn: identity of the directory connection
    resolve_cache,      \* check_availability._resolve_cache
    coll_queries,       \* directory queries answered, per collection
    clus_queries,       \* directory queries answered, per cluster id
    calls,              \* route calls made by the proxy so far
    db_errors,          \* OperationalErrors raised so far
    serial,             \* the proxy makes one call at a time in this run
    history,            \* of a serial run: what was selected so far
    outcome,            \* the attempt of route that has just ended
    trace,              \* the last step's releases of the lock and cache writes
    directory,          \* nimbusio_central.collection, and how often it has changed
    cached_reads        \* per cached collection: the directory version its value was read at

vars == << task, known_collections, known_clusters, deques,
           management_api_request_dest_hosts, dblock, conn, resolve_cache,
           coll_queries, clus_queries, calls, db_errors, serial, history, outcome,
           trace, directory, cached_reads >>

State ==
    [ task |-> task, known_collections |-> known_collections,
      known_clusters |-> known_clusters, deques |-> deques,
      mgmt |-> management_api_request_dest_hosts, dblock |-> dblock,
      conn |-> conn, resolve_cache |-> resolve_cache, coll_queries |-> coll_queries,
      clus_queries |-> clus_queries, calls |-> calls, db_errors |-> db_errors,
      serial |-> serial, history |-> history, outcome |-> outcome,
      trace |-> << >>, cached_reads |-> cached_reads ]

\* the state after the step is s (evaluated once)
Becomes(s) ==
  \E next \in { s } :
    /\ task' = next.task
    /\ known_collections' = next.known_collections
    /\ known_clusters' = next.known_clusters
    /\ deques' = next.deques
    /\ management_api_request_dest_hosts' = next.mgmt
    /\ dblock' = next.dblock
    /\ conn' = next.conn
    /\ resolve_cache' = next.resolve_cache
    /\ coll_queries' = next.coll_queries
    /\ clus_queries' = next.clus_queries
    /\ calls' = next.calls
    /\ db_errors' = next.db_errors
    /\ serial' = next.serial
    /\ history' = next.history
    /\ outcome' = next.outcome
    /\ trace' = next.trace
    /\ cached_reads' = next.cached_reads
    /\ directory' = directory

\* the locals of a route call
IdleTask ==
    [ pc |-> "idle", hostname |-> NoHostname, method |-> "",
      since_start |-> None, nap |-> 0, retries |-> 0, conn_id |-> None,
      collection |-> <<>>, cluster_id |-> None, hosts |-> None, dest_port |-> None,
      it_pos |-> 0, it_host |-> "", it_dirty |-> FALSE, addresses |-> <<>>,
      redis_keys |-> <<>>, redis_values |-> <<>>, redis_error |-> FALSE,
      availability |-> {}, row_seen |-> None, read_seen |-> 0 ]

NoOutcome ==
    [ task |-> None, end |-> "", result |-> NoResult, hosts_before |-> <<>>,
      locals |-> IdleTask ]

\* of a serial run: the management calls made, and per host deque the
\* selections made and whether every liveness read on it so far reported
\* every host reachable; the set of available hosts of the last selection on
\* it, and the hosts selected since that set was last another one, as many of
\* the latest as the set has members
NoHistory == [ mgmt_calls |-> 0, selections |-> <<>>, all_up |-> <<>>,
               view |-> <<>>, recent |-> <<>> ]

\* the selections under one set of available hosts, with one more
Recent(recent, view, availability, target) ==
    LET all == IF availability = view THEN Append(recent, target) ELSE << target >>
    IN  IF Len(all) > Cardinality(availability) THEN Tail(all) ELSE all

\* Router.__init__ and Router.init
Started ==
    /\ task = [ t \in Tasks |-> IdleTask ]
    /\ known_collections = << >>
    /\ known_clusters = << >>
    /\ deques = << >>
    /\ management_api_request_dest_hosts = NIMBUSIO_MANAGEMENT_API_REQUEST_DEST
    /\ dblock = None
    /\ conn = 1
    /\ resolve_cache = << >>
    /\ coll_queries = << >>
    /\ clus_queries = << >>
    /\ calls = 0
    /\ db_errors = 0
    /\ history = NoHistory
    /\ outcome = NoOutcome
    /\ trace = << >>
    /\ directory = [ rows |-> CollectionTable, version |-> 0 ]
    /\ cached_reads = << >>

Init == Started /\ serial = FALSE

InitSerial == Started /\ serial = TRUE

\* ------------------------------------------------- the code of a call
\* each operator takes the state and gives the state at the call's next
\* suspension point (or at its return)

\* the call of task t ends with a decision or an exception
Finish(s, t, decision) ==
    [ s EXCEPT !.task[t] = IdleTask,
               !.outcome = [ task |-> t, end |-> "return", result |-> decision,
                             hosts_before |-> IF s.task[t].hosts = None THEN <<>>
                                              ELSE s.deques[s.task[t].hosts],
                             locals |-> s.task[t] ] ]

\* route, lines 305-325: the selection loop and what follows it
Select(s, t, availability) ==
    LET me == [ s.task[t] EXCEPT !.availability = availability ]
        hosts == s.deques[me.hosts]
        n == Rotations(hosts, availability)
        rotated == RotateBy(hosts, n)
        found == n > 0 /\ rotated[1] \in availability
        since == IF me.since_start = None THEN 0 ELSE me.since_start
        decision == IF found THEN Remote(rotated[1], me.dest_port)
                    ELSE IF TimedOut(since)
                    THEN _reject(SERVICE_UNAVAILABLE, "Retry later")
                    ELSE NoResult
        ends == IF decision = NoResult THEN "sleep" ELSE "return"
        all_true == /\ ~me.redis_error
                    /\ Len(me.redis_values) = Len(hosts)
                    /\ \A i \in 1..Len(hosts) : JsonReachable(me.redis_values[i]) = "true"
    IN  [ s EXCEPT
            !.history = IF ~s.serial THEN @
                        ELSE [ @ EXCEPT
                                 !.selections[me.hosts] = IF found THEN @ + 1 ELSE @,
                                 !.all_up[me.hosts] = @ /\ all_true,
                                 !.view[me.hosts] = availability,
                                 !.recent[me.hosts] =
                                     IF found
                                     THEN Recent(@, s.history.view[me.hosts],
                                                 availability, rotated[1])
                                     ELSE << >> ],
            !.deques[me.hosts] = rotated,
            \* a rotation invalidates the iterators other tasks hold on the deque
            !.task = [ u \in Tasks |->
                IF u = t
                THEN IF ends = "return" THEN IdleTask
                     ELSE [ IdleTask EXCEPT !.pc = "sleep", !.hostname = me.hostname,
                                            !.method = me.method, !.since_start = since,
                                            !.nap = RETRY_DELAY ]
                ELSE IF n > 0 /\ s.task[u].pc = "resolve" /\ s.task[u].hosts = me.hosts
                     THEN [ s.task[u] EXCEPT !.it_dirty = TRUE ]
                     ELSE s.task[u] ],
            !.outcome = [ task |-> t, end |-> ends, result |-> decision,
                          hosts_before |-> hosts,
                          locals |-> IF found THEN me
                                     ELSE [ me EXCEPT !.since_start = since ] ] ]

\* check_availability, lines 203-213: the loop over the deque from position
\* i on, up to the next name that has to be resolved, or to the hmget
IterFrom(s, t, i) ==
    LET me == s.task[t]
        hosts == s.deques[me.hosts]
        misses == { j \in i..Len(hosts) : hosts[j] \notin DOMAIN s.resolve_cache }
        stop == IF misses = {} THEN Len(hosts) + 1
                ELSE CHOOSE j \in misses : \A k \in misses : j <= k
        addresses == me.addresses \o
                     [ k \in 1..(stop - i) |-> s.resolve_cache[hosts[i + k - 1]] ]
    IN  IF stop > Len(hosts)
        THEN [ s EXCEPT !.task[t] =
                 [ @ EXCEPT !.pc = "hmget", !.it_pos = 0, !.it_host = "",
                            !.addresses = addresses,
                            !.redis_keys = [ k \in 1..Len(addresses) |->
                                               RedisKey(addresses[k], me.dest_port) ] ] ]
        ELSE [ s EXCEPT !.task[t] =
                 [ @ EXCEPT !.pc = "resolve", !.it_pos = stop,
                            !.it_host = hosts[stop], !.addresses = addresses ] ]

\* route, line 303 on, with hosts = the task's reference (None: no hosts)
CheckAvailability(s, t) ==
    LET me == s.task[t]
    IN  IF me.dest_port = None
        THEN Finish(s, t, Raised("UnboundLocalError"))
        ELSE IF me.hosts = None
        THEN Finish(s, t, Raised("TypeError"))
        ELSE IF Len(s.deques[me.hosts]) = 0
        THEN Select(s, t, {})
        ELSE IterFrom(s, t, 1)

\* 'with lock:' is left by task t without the lock being given up
NotReleased(s, t) == [ s EXCEPT !.dblock = t ]

\* _supervise_db_interaction, lines 68-97: task t leaves 'with lock:'
Released(s, t) ==
    [ s EXCEPT !.dblock = None,
               !.trace = Append(@, [ event |-> "release", task |-> t, cache |-> "",
                                     dblock |-> t ]) ]

\* task t writes to one of the caches: the trace keeps who holds the lock
\* at this moment
Written(s, t, cache) ==
    [ s EXCEPT !.trace = Append(@, [ event |-> "write", task |-> t, cache |-> cache,
                                     dblock |-> s.dblock ]) ]

\* Router._cluster_info, line 191, with the decorator's result
StoreCluster(s, t, cluster_id, info) ==
    [ Written(s, t, "known_clusters") EXCEPT
        !.known_clusters = (cluster_id :> info) @@ @,
        !.task[t].hosts = info ]

\* one more answered query of the directory for key
Counted(queries, key) ==
    (key :> (IF key \in DOMAIN queries THEN queries[key] ELSE 0) + 1) @@ queries

\* the decorated _db_cluster_info without cache_check_func: the query is
\* sent whatever the cache holds
ClusterInfoUnchecked(s, t) ==
    [ s EXCEPT !.dblock = t, !.task[t].pc = "query_cluster",
               !.task[t].conn_id = s.conn ]

\* Router._cluster_info after the cache miss: the decorated _db_cluster_info
\* once the lock is held
ClusterInfoLocked(s, t) ==
    LET me == s.task[t]
    IN  IF me.cluster_id \in DOMAIN s.known_clusters
        THEN \* cache_check_func found the record: break, no query
             CheckAvailability(
                 StoreCluster(Released(s, t), t, me.cluster_id,
                              s.known_clusters[me.cluster_id]), t)
        ELSE [ s EXCEPT !.dblock = t, !.task[t].pc = "query_cluster",
                        !.task[t].conn_id = s.conn ]

\* Router._hosts_for_collection from line 144 on
HostsForCluster(s, t, cluster_id) ==
    LET s1 == [ s EXCEPT !.task[t].cluster_id = cluster_id ]
    IN  IF cluster_id = None
        THEN CheckAvailability([ s1 EXCEPT !.task[t].hosts = None ], t)
        ELSE IF cluster_id \in DOMAIN s.known_clusters
        THEN CheckAvailability(
                 [ s1 EXCEPT !.task[t].hosts = s.known_clusters[cluster_id] ], t)
        ELSE IF s.dblock = None
        THEN ClusterInfoLocked(s1, t)
        ELSE [ s1 EXCEPT !.task[t].pc = "lock_cluster" ]

\* Router._cluster_for_collection, lines 166-167, with the decorator's result
StoreCollection(s, t, result) ==
    HostsForCluster(
        [ Written(s, t, "known_collections") EXCEPT
            !.known_collections = LRUPut(@, s.task[t].collection, result),
            !.cached_reads = (s.task[t].collection :> s.task[t].read_seen) @@ @,
            !.task[t].row_seen = None,
            !.task[t].read_seen = 0 ],
        t, result)

\* the decorated _db_cluster_for_collection without cache_check_func: the
\* query is sent whatever the cache holds
ClusterForCollectionUnchecked(s, t) ==
    [ s EXCEPT !.dblock = t, !.task[t].pc = "query_collection",
               !.task[t].conn_id = s.conn,
               !.task[t].row_seen =
                   DbClusterForCollection(directory.rows, s.task[t].collection),
               !.task[t].read_seen = directory.version ]

\* the decorated _db_cluster_for_collection once the lock is held
ClusterForCollectionLocked(s, t) ==
    LET me == s.task[t]
        cached == LRUGet(s.known_collections, me.collection, None)
    IN  IF Truthy(cached)
        THEN StoreCollection(
                 Released([ s EXCEPT !.task[t].read_seen = s.cached_reads[me.collection] ], t),
                 t, cached)
        ELSE \* the query is sent: the table may be read as it is now
             [ s EXCEPT !.dblock = t, !.task[t].pc = "query_collection",
                        !.task[t].conn_id = s.conn,
                        !.task[t].row_seen =
                            DbClusterForCollection(directory.rows, me.collection),
                        !.task[t].read_seen = directory.version ]

\* Router.route from line 262 on, for a first call and for a retry
RouteBody(s, t) ==
    LET me == s.task[t]
    IN  IF HostnameRejected(me.hostname)
        THEN Finish(s, t, _reject(NOT_FOUND, "None"))
        ELSE IF me.hostname = NIMBUS_IO_SERVICE_DOMAIN
        THEN LET dest == ManagementRotated(s.mgmt)
             IN  Finish([ s EXCEPT !.mgmt = dest,
                                   !.history.mgmt_calls = IF s.serial THEN @ + 1 ELSE @ ],
                        t, Remote(dest[1], None))
        ELSE LET collection == _parse_collection(me.hostname)
                 s1 == [ s EXCEPT !.task[t].dest_port = DestPort(me.method),
                                  !.task[t].collection = collection ]
             IN  IF InKnownCollections(s.known_collections, collection)
                 THEN HostsForCluster(s1, t, LRUGet(s.known_collections, collection, None))
                 ELSE IF s.dblock = None
                 THEN ClusterForCollectionLocked(s1, t)
                 ELSE [ s1 EXCEPT !.task[t].pc = "lock_collection" ]

\* ----------------------------------------------------------- actions
\* nothing else runs between the end of an attempt and the proxy taking it
Running == outcome.task = None

\* the proxy calls route(hostname, method, path, query_string), with a
\* hostname and a method of the given sets
CallWith(t, hostnames, methods) ==
    \E hostname \in hostnames, method \in methods :
        Becomes(RouteBody(
            [ State EXCEPT !.calls = @ + 1,
                           !.task[t] = [ IdleTask EXCEPT !.hostname = hostname,
                                                         !.method = method ] ], t))

Call(t) ==
    /\ Running
    /\ task[t].pc = "idle"
    /\ IF serial
       THEN calls < MaxSerialCalls /\ \A u \in Tasks : task[u].pc = "idle"
       ELSE calls < MaxCalls
    /\ CallWith(t, IF serial THEN SerialHostnames ELSE Hostnames,
                    IF serial THEN SerialMethods ELSE Methods)

\* the proxy takes the decision (or the attempt is over and the task sleeps)
Taken ==
    /\ ~Running
    /\ outcome' = NoOutcome
    /\ trace' = << >>
    /\ UNCHANGED << directory, cached_reads >>
    /\ UNCHANGED << task, known_collections, known_clusters, deques,
                    management_api_request_dest_hosts, dblock, conn, resolve_cache,
                    coll_queries, clus_queries, calls, db_errors, serial, history >>

\* a task waiting at 'with lock:' gets the lock
AcquireLock(t) ==
    /\ Running
    /\ task[t].pc \in { "lock_collection", "lock_cluster" }
    /\ dblock = None
    /\ IF task[t].pc = "lock_collection"
       THEN Becomes(ClusterForCollectionLocked(State, t))
       ELSE Becomes(ClusterInfoLocked(State, t))

\* fetch_one_row returns in _db_cluster_for_collection: the table was read
\* when the query was sent, or is read as it is now
CollectionQueryReturns(t) ==
    /\ Running
    /\ task[t].pc = "query_collection"
    /\ \E read \in { [ row |-> task[t].row_seen, version |-> task[t].read_seen ],
                     [ row |-> DbClusterForCollection(directory.rows, task[t].collection),
                       version |-> directory.version ] } :
         Becomes(StoreCollection(
             Released([ State EXCEPT !.coll_queries = Counted(@, task[t].collection),
                                     !.task[t].read_seen = read.version ], t),
             t, read.row))

\* fetch_all_rows returns in _db_cluster_info; _cluster_info stores the record
ClusterQueryReturns(t) ==
    /\ Running
    /\ task[t].pc = "query_cluster"
    /\ LET ref == Len(deques) + 1
           s1 == [ State EXCEPT
                     !.clus_queries = Counted(@, task[t].cluster_id),
                     !.history = [ @ EXCEPT !.selections = Append(@, 0),
                                            !.all_up = Append(@, TRUE),
                                            !.view = Append(@, {}),
                                            !.recent = Append(@, << >>) ],
                     !.deques = Append(@, DbClusterInfo(task[t].cluster_id)) ]
       IN  Becomes(CheckAvailability(
               StoreCluster(Released(s1, t), t, task[t].cluster_id, ref), t))

\* socket.gethostbyname returns
Resolved(t) ==
    /\ Running
    /\ task[t].pc = "resolve"
    /\ LET me == task[t]
           address == gethostbyname(me.it_host)
           s1 == [ State EXCEPT
                     !.resolve_cache = (me.it_host :> address) @@ @,
                     !.task[t].addresses = Append(@, address) ]
       IN  IF me.it_dirty
           THEN Becomes(Finish(s1, t, Raised("RuntimeError")))
           ELSE Becomes(IterFrom(s1, t, me.it_pos + 1))

\* redis.hmget returns the values of the keys, in their order; the values
\* are of the given set
HmgetReturnsFrom(t, values) ==
    \E redis_values \in [ 1..Len(task[t].redis_keys) -> values ] :
      \E availability \in { AvailableFromValues(deques[task[t].hosts], redis_values) } :
        \E s \in { [ State EXCEPT !.task[t].redis_values = redis_values ] } :
          Becomes(Select(s, t, availability))

HmgetReturns(t) ==
    /\ Running
    /\ task[t].pc = "hmget"
    /\ HmgetReturnsFrom(t, RedisValues)

\* redis.hmget raises RedisError
HmgetRaises(t) ==
    /\ Running
    /\ task[t].pc = "hmget"
    /\ Becomes(Select([ State EXCEPT !.task[t].redis_error = TRUE ], t,
                      AvailableOnRedisError(deques[task[t].hosts])))

\* gevent.sleep(RETRY_DELAY) is over: route calls itself with start
Retry(t) ==
    /\ Running
    /\ task[t].pc = "sleep"
    /\ task[t].nap = 0
    /\ Becomes(RouteBody(State, t))

\* an except clause that is reached after 'with lock:' has been left
FailedQueryUnlocked(s, t) ==
    [ s EXCEPT !.dblock = None,
               !.db_errors = @ + 1,
               !.task[t].retries = 1,
               !.task[t].pc = IF s.task[t].pc = "query_collection"
                              THEN "reconnect_collection" ELSE "reconnect_cluster" ]

\* _supervise_db_interaction, lines 77-92: the except clause up to the call
\* of retry_central_connection, reached inside 'with lock:'
FailedQuery(s, t) ==
    [ s EXCEPT !.db_errors = @ + 1,
               !.task[t].retries = 1,
               !.task[t].pc = IF s.task[t].pc = "query_collection"
                              THEN "reconnect_collection" ELSE "reconnect_cluster" ]

\* the directory query raises psycopg2.OperationalError, at most `limit'
\* times in a run
QueryRaisesUpTo(t, limit) ==
    /\ Running
    /\ task[t].pc \in { "query_collection", "query_cluster" }
    /\ db_errors < limit
    /\ Becomes(FailedQuery(State, t))

QueryRaises(t) == QueryRaisesUpTo(t, MaxDbErrors)

\* the directory query raises an exception that line 77 does not catch: it
\* leaves 'with lock:', the decorator and route
QueryFails(t) ==
    /\ Running
    /\ task[t].pc \in { "query_collection", "query_cluster" }
    /\ Becomes(Finish(Released(State, t), t, Raised("DatabaseError")))

\* retry_central_connection returns: lines 93-96, the end of 'with lock:'
\* and time.sleep(1.0) of the next round
Reconnected(t) ==
    /\ Running
    /\ task[t].pc \in { "reconnect_collection", "reconnect_cluster" }
    /\ Becomes([ Released(State, t) EXCEPT
                   !.conn = @ + 1,
                   !.task[t].conn_id = conn + 1,
                   !.task[t].nap = 1,
                   !.task[t].pc = IF task[t].pc = "reconnect_collection"
                                  THEN "backoff_collection" ELSE "backoff_cluster" ])

\* time.sleep(1.0) is over: 'with lock:' of the next round
Backoff(t) ==
    /\ Running
    /\ task[t].pc \in { "backoff_collection", "backoff_cluster" }
    /\ task[t].nap = 0
    /\ IF dblock /= None
       THEN Becomes([ State EXCEPT
                        !.task[t].pc = IF task[t].pc = "backoff_collection"
                                       THEN "lock_collection" ELSE "lock_cluster" ])
       ELSE IF task[t].pc = "backoff_collection"
            THEN Becomes(ClusterForCollectionLocked(State, t))
            ELSE Becomes(ClusterInfoLocked(State, t))

\* time passes: sleeps come to their end, and the calls in `late' leave the
\* first AVAILABILITY_TIMEOUT seconds after their start
Tick ==
    /\ Running
    /\ \E t \in Tasks :
         task[t].nap > 0 \/ task[t].since_start \notin { None, AVAILABILITY_TIMEOUT + 1 }
    /\ \E late \in SUBSET { t \in Tasks : task[t].since_start = RETRY_DELAY } :
         task' = [ t \in Tasks |->
                     [ task[t] EXCEPT
                         !.nap = 0,
                         !.since_start = IF t \in late THEN AVAILABILITY_TIMEOUT + 1
                                         ELSE IF @ = 0 THEN RETRY_DELAY ELSE @ ] ]
    /\ UNCHANGED << known_collections, known_clusters, deques,
                    management_api_request_dest_hosts, dblock, conn, resolve_cache,
                    coll_queries, clus_queries, calls, db_errors, serial, history,
                    outcome, directory, cached_reads >>
    /\ trace' = << >>

Next ==
    \/ \E t \in Tasks : Call(t)
    \/ Taken
    \/ \E t \in Tasks : AcquireLock(t)
    \/ \E t \in Tasks : CollectionQueryReturns(t)
    \/ \E t \in Tasks : ClusterQueryReturns(t)
    \/ \E t \in Tasks : Resolved(t)
    \/ \E t \in Tasks : HmgetReturns(t)
    \/ \E t \in Tasks : HmgetRaises(t)
    \/ \E t \in Tasks : Retry(t)
    \/ \E t \in Tasks : QueryRaises(t)
    \/ \E t \in Tasks : Reconnected(t)
    \/ \E t \in Tasks : Backoff(t)
    \/ Tick

Spec == Init /\ [][Next]_vars

\* a run in which the proxy waits for each decision before its next call:
\* no task ever waits for the lock
NextSerial ==
    \/ \E t \in Tasks : Call(t)
    \/ Taken
    \/ \E t \in Tasks : CollectionQueryReturns(t)
    \/ \E t \in Tasks : ClusterQueryReturns(t)
    \/ \E t \in Tasks : Resolved(t)
    \/ \E t \in Tasks : HmgetReturns(t)
    \/ \E t \in Tasks : HmgetRaises(t)
    \/ \E t \in Tasks : Retry(t)
    \/ \E t \in Tasks : QueryRaises(t)
    \/ \E t \in Tasks : Reconnected(t)
    \/ \E t \in Tasks : Backoff(t)
    \/ Tick

SpecSerial == InitSerial /\ [][NextSerial]_vars

\* a run in which the proxy calls for collections of the directory only, the
\* directory answers every query, and every read and sleep comes to its end
WaitingHostnames == { <<"a", ".", "i", "o">>, <<"e", ".", "i", "o">> }

\* liveness values of hosts the prober has seen up or down
WaitingRedisValues == { "{\"reachable\": true}", "{\"reachable\": false}" }

HmgetReturnsWaiting(t) ==
    /\ Running
    /\ task[t].pc = "hmget"
    /\ HmgetReturnsFrom(t, WaitingRedisValues)

CallWaiting(t) ==
    /\ Running
    /\ task[t].pc = "idle"
    /\ calls < MaxWaitingCalls
    /\ CallWith(t, WaitingHostnames, { "GET" })

\* the next step of task t's call once what it waits for has come
Progress(t) ==
    \/ AcquireLock(t)
    \/ CollectionQueryReturns(t)
    \/ ClusterQueryReturns(t)
    \/ Resolved(t)
    \/ HmgetReturnsWaiting(t)
    \/ HmgetRaises(t)
    \/ Retry(t)

\* the call of task t leaves the first AVAILABILITY_TIMEOUT seconds after its
\* first failed selection
DeadlinePasses(t) ==
    /\ Tick
    /\ task[t].since_start = RETRY_DELAY
    /\ task'[t].since_start = AVAILABILITY_TIMEOUT + 1

NextWaiting ==
    \/ \E t \in Tasks : CallWaiting(t)
    \/ Taken
    \/ \E t \in Tasks : AcquireLock(t)
    \/ \E t \in Tasks : CollectionQueryReturns(t)
    \/ \E t \in Tasks : ClusterQueryReturns(t)
    \/ \E t \in Tasks : Resolved(t)
    \/ \E t \in Tasks : HmgetReturnsWaiting(t)
    \/ \E t \in Tasks : HmgetRaises(t)
    \/ \E t \in Tasks : Retry(t)
    \/ Tick

\* gevent runs every greenlet that is ready, the lock is handed to every
\* waiter, reads return, and the clock advances: every round of the retry
\* loop sleeps RETRY_DELAY seconds, so a call cannot stay within
\* AVAILABILITY_TIMEOUT seconds of its first failure for ever
Fairness ==
    /\ WF_vars(Taken)
    /\ WF_vars(Tick)
    /\ \A t \in Tasks : WF_vars(Progress(t))
    /\ \A t \in Tasks : SF_vars(DeadlinePasses(t))

SpecWaiting == Init /\ [][NextWaiting]_vars /\ Fairness

\* a run in which the collection table of the directory changes while the
\* proxy calls for the collections `a' and `g'; the liveness store reports
\* every host reachable
DirectoryHostnames == { <<"a", ".", "i", "o">>, <<"g", ".", "i", "o">> }

DirectoryRedisValues == { "{\"reachable\": true}" }

CallDirectory(t) ==
    /\ Running
    /\ task[t].pc = "idle"
    /\ calls < MaxDirectoryCalls
    /\ CallWith(t, DirectoryHostnames, { "GET" })

HmgetReturnsDirectory(t) ==
    /\ Running
    /\ task[t].pc = "hmget"
    /\ HmgetReturnsFrom(t, DirectoryRedisValues)

\* a collection is created, deleted, or moved to another cluster
DirectoryChanges ==
    /\ Running
    /\ directory.version < MaxDirectoryChanges
    /\ \E hostname \in DirectoryHostnames, cluster_id \in { None, 1, 2 } :
         LET name == _parse_collection(hostname)
         IN  /\ cluster_id /= DbClusterForCollection(directory.rows, name)
             /\ directory' =
                   [ rows |-> { r \in directory.rows : r.name /= name } \cup
                              (IF cluster_id = None THEN {}
                               ELSE { [ name |-> name, cluster_id |-> cluster_id ] }),
                     version |-> directory.version + 1 ]
    /\ trace' = << >>
    /\ UNCHANGED << task, known_collections, known_clusters, deques,
                    management_api_request_dest_hosts, dblock, conn, resolve_cache,
                    coll_queries, clus_queries, calls, db_errors, serial, history,
                    outcome, cached_reads >>

NextDirectory ==
    \/ \E t \in Tasks : CallDirectory(t)
    \/ Taken
    \/ \E t \in Tasks : AcquireLock(t)
    \/ \E t \in Tasks : CollectionQueryReturns(t)
    \/ \E t \in Tasks : ClusterQueryReturns(t)
    \/ \E t \in Tasks : Resolved(t)
    \/ \E t \in Tasks : HmgetReturnsDirectory(t)
    \/ \E t \in Tasks : Retry(t)
    \/ \E t \in Tasks : QueryRaises(t)
    \/ \E t \in Tasks : Reconnected(t)
    \/ \E t \in Tasks : Backoff(t)
    \/ Tick
    \/ DirectoryChanges

SpecDirectory == Init /\ [][NextDirectory]_vars

\* a run in which the directory connection fails up to MaxMemoizerErrors
\* times while the proxy calls for the collections `a' and `g'; a query may
\* also fail with an error that is not a connection failure; the liveness
\* store reports every host reachable, so no call sleeps for a retry
CallMemoizer(t) ==
    /\ Running
    /\ task[t].pc = "idle"
    /\ calls < MaxMemoizerCalls
    /\ CallWith(t, DirectoryHostnames, { "GET" })

QueryRaisesMemoizer(t) == QueryRaisesUpTo(t, MaxMemoizerErrors)

\* the next step of task t's call, the rounds of the decorator included
ProgressMemoizer(t) ==
    \/ AcquireLock(t)
    \/ CollectionQueryReturns(t)
    \/ ClusterQueryReturns(t)
    \/ Resolved(t)
    \/ HmgetReturnsDirectory(t)
    \/ Reconnected(t)
    \/ Backoff(t)

NextMemoizer ==
    \/ \E t \in Tasks : CallMemoizer(t)
    \/ Taken
    \/ \E t \in Tasks : AcquireLock(t)
    \/ \E t \in Tasks : CollectionQueryReturns(t)
    \/ \E t \in Tasks : ClusterQueryReturns(t)
    \/ \E t \in Tasks : Resolved(t)
    \/ \E t \in Tasks : HmgetReturnsDirectory(t)
    \/ \E t \in Tasks : QueryRaisesMemoizer(t)
    \/ \E t \in Tasks : QueryFails(t)
    \/ \E t \in Tasks : Reconnected(t)
    \/ \E t \in Tasks : Backoff(t)
    \/ Tick

\* gevent runs every greenlet that is ready: the lock is handed to a waiter,
\* the directory answers, retry_central_connection returns, and
\* time.sleep(1.0) comes to its end
FairnessMemoizer ==
    /\ WF_vars(Taken)
    /\ WF_vars(Tick)
    /\ \A t \in Tasks : WF_vars(ProgressMemoizer(t))

SpecMemoizer == Init /\ [][NextMemoizer]_vars /\ FairnessMemoizer

\* ------------------------------------------------------------ claims
\* what the claims talk about: the call that has just returned
Returned == outcome.task /= None /\ outcome.end = "return"

Attempted == outcome.task /= None

\* a hostname that ends with the service domain and is not equal to it
CollectionScoped(hostname) ==
    /\ hostname /= NoHostname
    /\ hostname /= NIMBUS_IO_SERVICE_DOMAIN
    /\ EndsWith(hostname, NIMBUS_IO_SERVICE_DOMAIN)

\* the collections the directory has a row for
DirectoryCollections == { r.name : r \in CollectionTable }

\* the cluster the directory gives as the owner of a collection
OwnerOf(collection) ==
    (CHOOSE r \in CollectionTable : r.name = collection).cluster_id

\* the hosts the directory declares for a cluster
DeclaredHosts(cluster_id) ==
    { r.hostname : r \in { n \in NodeTable : n.cluster_id = cluster_id } }

\* C1: concurrent misses of the collection cache on one collection lead to
\* one answered directory query for it in total, whatever the directory
\* answers (a cluster id or no row), and every caller gets the value that
\* is in the cache
C1_OneQueryPerCollection ==
    /\ \A c \in DOMAIN coll_queries : coll_queries[c] <= 1
    /\ \A t \in Tasks :
         (task[t].pc \notin { "idle", "sleep", "lock_collection", "query_collection",
                              "reconnect_collection", "backoff_collection" })
            => task[t].cluster_id = known_collections[task[t].collection]

\* C2: a call whose hostname is None or does not end with the service domain
\* returns the 404 reject, never a backend
C2_ForeignHostname404 ==
    (Returned /\ ~CollectionScoped(outcome.locals.hostname)
              /\ outcome.locals.hostname /= NIMBUS_IO_SERVICE_DOMAIN)
       => /\ outcome.result.kind = "close"
          /\ outcome.result.code = 404
          /\ outcome.result.phrase = "Not Found"

\* C2 happens: a foreign hostname is rejected while the caches are filled
C2_Witness ==
    /\ Returned
    /\ outcome.locals.hostname = <<"a", ".", "c", "o">>
    /\ outcome.result.code = 404
    /\ DOMAIN known_collections /= {}
    /\ DOMAIN known_clusters /= {}

\* C3: a call with a collection-scoped hostname and a method outside GET,
\* HEAD, POST, PUT, PATCH, DELETE ends by returning the 400 reject
C3_UnknownMethod400 ==
    \A t \in Tasks :
        (/\ outcome.task = t
         /\ CollectionScoped(outcome.locals.hostname)
         /\ outcome.locals.method \notin { "GET", "HEAD", "POST", "PUT", "PATCH", "DELETE" })
           => /\ outcome.end = "return"
              /\ outcome.result.kind = "close"
              /\ outcome.result.code = 400

\* C4: a call with a read or write method for a collection the directory has
\* no row for ends by returning the 404 reject
C4_NoSuchCollection404 ==
    \A t \in Tasks :
        (/\ outcome.task = t
         /\ CollectionScoped(outcome.locals.hostname)
         /\ outcome.locals.method \in { "GET", "HEAD", "POST", "PUT", "PATCH", "DELETE" }
         /\ outcome.locals.collection \notin DirectoryCollections)
           => /\ outcome.end = "return"
              /\ outcome.result.kind = "close"
              /\ outcome.result.code = 404

\* the host list the directory declares for a cluster, by node number
DeclaredList(cluster_id) ==
    LET rows == OrderByNodeNumber({ n \in NodeTable : n.cluster_id = cluster_id })
    IN  [ i \in 1..Len(rows) |-> rows[i].hostname ]

\* the call that has just returned a backend of the cluster with the host
\* list [h1, h2, h3], every liveness read on that list so far having
\* reported every host reachable
AllUpSelection ==
    /\ Returned
    /\ outcome.result.kind = "remote"
    /\ CollectionScoped(outcome.locals.hostname)
    /\ DeclaredList(outcome.locals.cluster_id) = <<"h1", "h2", "h3">>
    /\ history.all_up[outcome.locals.hosts]

\* C5 as claimed: with the host list [h1, h2, h3] and every host reported
\* reachable, the k-th serial call from the loading of the record on selects
\* h2, h3, h1, h2, ...
C5_OrderAsClaimed ==
    AllUpSelection =>
        LET k == history.selections[outcome.locals.hosts]
        IN  outcome.result.target = <<"h1", "h2", "h3">>[(k % 3) + 1]

\* C5 amended: with the host list [h1, h2, h3] and every host reported
\* reachable, the k-th serial call from the loading of the record on selects
\* h3, h2, h1, h3, ...: the list backwards, from its last host on
C5_OrderBackwards ==
    AllUpSelection =>
        LET k == history.selections[outcome.locals.hosts]
        IN  outcome.result.target = <<"h1", "h2", "h3">>[3 - ((k - 1) % 3)]

\* C5 happens: the fourth selection in a row is h3 again
C5_Witness ==
    /\ AllUpSelection
    /\ history.selections[outcome.locals.hosts] = 4
    /\ outcome.result.target = "h3"

\* a call with the service domain as hostname has just returned
ManagementReturned ==
    /\ Returned
    /\ outcome.locals.hostname = NIMBUS_IO_SERVICE_DOMAIN

\* C6 as claimed: the k-th call with hostname = service domain returns the
\* k-th host of the configured list, cyclically, the first host first
C6_OrderAsClaimed ==
    ManagementReturned =>
        LET n == Len(NIMBUSIO_MANAGEMENT_API_REQUEST_DEST)
        IN  outcome.result = Remote(
                NIMBUSIO_MANAGEMENT_API_REQUEST_DEST[((history.mgmt_calls - 1) % n) + 1],
                None)

\* C6 amended: the k-th call with hostname = service domain returns the
\* configured list backwards, cyclically, the last host first, with the
\* length of the list as period
C6_OrderBackwards ==
    ManagementReturned =>
        LET n == Len(NIMBUSIO_MANAGEMENT_API_REQUEST_DEST)
        IN  outcome.result = Remote(
                NIMBUSIO_MANAGEMENT_API_REQUEST_DEST[n - ((history.mgmt_calls - 1) % n)],
                None)

\* C6 happens: the fourth management call returns the last host again
C6_Witness ==
    /\ ManagementReturned
    /\ history.mgmt_calls = Len(NIMBUSIO_MANAGEMENT_API_REQUEST_DEST) + 1
    /\ outcome.result.target = "m3"

\* C7: a backend returned for a collection-scoped hostname is one of the hosts
\* the directory declares for the cluster that owns the collection
C7_TargetDeclared ==
    (Returned /\ outcome.result.kind = "remote"
              /\ CollectionScoped(outcome.locals.hostname))
       => /\ outcome.locals.collection \in DirectoryCollections
          /\ outcome.result.target \in
                DeclaredHosts(OwnerOf(outcome.locals.collection))

\* C7 happens: a backend is returned while another call is waiting for its
\* liveness read on the same deque
C7_Witness ==
    /\ Returned
    /\ outcome.result.kind = "remote"
    /\ CollectionScoped(outcome.locals.hostname)
    /\ \E u \in Tasks : /\ task[u].pc = "hmget"
                        /\ task[u].hosts = outcome.locals.hosts

\* C8: a backend returned for a collection-scoped hostname has the write port
\* for POST, DELETE, PUT, PATCH and the read port for HEAD, GET, also when
\* the call has retried
C8_PortOfTier ==
    (Returned /\ outcome.result.kind = "remote"
              /\ CollectionScoped(outcome.locals.hostname))
       => \/ /\ outcome.locals.method \in { "POST", "DELETE", "PUT", "PATCH" }
             /\ outcome.result.port = NIMBUSIO_WEB_WRITER_PORT
          \/ /\ outcome.locals.method \in { "HEAD", "GET" }
             /\ outcome.result.port = NIMBUSIO_WEB_SERVER_PORT

\* C8 happens: a write is routed after the call has waited and retried
C8_Witness ==
    /\ Returned
    /\ outcome.result.kind = "remote"
    /\ outcome.locals.method = "PATCH"
    /\ outcome.result.port = NIMBUSIO_WEB_WRITER_PORT
    /\ outcome.locals.since_start /= None

\* C9: when hmget raises RedisError, check_availability returns every host
\* of the list and the attempt returns a backend of the cluster
C9_FailOpen ==
    (Attempted /\ outcome.locals.redis_error)
       => /\ outcome.locals.availability = DeclaredHosts(outcome.locals.cluster_id)
          /\ outcome.end = "return"
          /\ outcome.result.kind = "remote"
          /\ outcome.result.target \in DeclaredHosts(outcome.locals.cluster_id)

\* C9 happens: the store fails and the attempt returns a backend
C9_Witness ==
    /\ Attempted
    /\ outcome.locals.redis_error
    /\ outcome.result.kind = "remote"
    /\ Len(outcome.hosts_before) = 3

\* the liveness store had no entry for any key of the read
EveryHostUnknown ==
    /\ Attempted
    /\ ~outcome.locals.redis_error
    /\ Len(outcome.locals.redis_values) > 0
    /\ \A i \in 1..Len(outcome.locals.redis_values) :
          outcome.locals.redis_values[i] = "None"

\* C10: when the store has no entry for any host of the list,
\* check_availability returns every host of the list and the attempt
\* returns a backend of the cluster
C10_AllUnknownOpen ==
    EveryHostUnknown
       => /\ outcome.locals.availability = DeclaredHosts(outcome.locals.cluster_id)
          /\ outcome.end = "return"
          /\ outcome.result.kind = "remote"
          /\ outcome.result.target \in DeclaredHosts(outcome.locals.cluster_id)

\* C10 happens: nothing is known of any host and a backend is returned
C10_Witness ==
    /\ EveryHostUnknown
    /\ outcome.result.kind = "remote"
    /\ Len(outcome.locals.redis_values) = 3

\* the attempt that has just ended returned the 503 reject
Rejected503 ==
    /\ Returned
    /\ outcome.result.kind = "close"
    /\ outcome.result.code = SERVICE_UNAVAILABLE

\* C11: a step that ends a call with the 503 reject is taken by a call whose
\* first failed selection lies more than AVAILABILITY_TIMEOUT seconds back
\* (so it is never the call's first attempt), and the time a pending call
\* measures since its first failed selection never goes back to a smaller
\* value while the call is pending
C11_503OnlyAfterTimeout ==
    [][ /\ (outcome'.task /= None /\ outcome'.end = "return"
                                   /\ outcome'.result.kind = "close"
                                   /\ outcome'.result.code = SERVICE_UNAVAILABLE)
            => /\ task[outcome'.task].since_start /= None
               /\ task[outcome'.task].since_start > AVAILABILITY_TIMEOUT
               /\ outcome'.locals.since_start = task[outcome'.task].since_start
        /\ \A t \in Tasks :
              (task[t].since_start /= None /\ task'[t].pc /= "idle")
                 => task'[t].since_start >= task[t].since_start ]_vars

\* C11 happens: a call on a cluster with three hosts gets the 503 reject
\* after the deadline
C11_Witness ==
    /\ Rejected503
    /\ outcome.result.body = "Retry later"
    /\ outcome.locals.since_start > AVAILABILITY_TIMEOUT
    /\ Len(outcome.hosts_before) = 3

\* the liveness value the read of the attempt that has just ended brought
\* for the key of host: "absent" when the read had no key for it
OwnValue(host) ==
    LET own == { i \in 1..Len(outcome.locals.redis_values) :
                   outcome.locals.redis_keys[i]
                      = RedisKey(gethostbyname(host), outcome.locals.dest_port) }
    IN  IF own = {} THEN "absent"
        ELSE outcome.locals.redis_values[CHOOSE i \in own : TRUE]

\* C12: a call whose first selection failed and whose retry, within
\* AVAILABILITY_TIMEOUT seconds of that failure, reads the liveness store
\* when it reports a host of the cluster reachable: the retry returns a
\* backend, the backend is a host the store reports reachable under its own
\* key, and no 503 is returned
C12_RecoveryReturnsReachable ==
    (/\ Attempted
     /\ outcome.locals.since_start = RETRY_DELAY
     /\ ~outcome.locals.redis_error
     /\ \E i \in 1..Len(outcome.locals.redis_values) :
           JsonReachable(outcome.locals.redis_values[i]) = "true")
       => /\ outcome.end = "return"
          /\ outcome.result.kind = "remote"
          /\ JsonReachable(OwnValue(outcome.result.target)) = "true"

\* the attempt that has just ended returned a backend or the 503 reject
\* "Retry later" to task t
BackendOrRetryLater(t) ==
    /\ outcome.task = t
    /\ outcome.end = "return"
    /\ \/ outcome.result.kind = "remote"
       \/ /\ outcome.result.kind = "close"
          /\ outcome.result.code = SERVICE_UNAVAILABLE
          /\ outcome.result.body = "Retry later"

\* C13: when the directory and the liveness store answer, a call that found
\* no available host and sleeps does not retry for ever: it comes to an
\* attempt that finds a host, or it returns the 503 reject "Retry later"
C13_BoundedWaiting ==
    \A t \in Tasks : (task[t].pc = "sleep") ~> BackendOrRetryLater(t)

\* C13 happens: the call for the collection of the cluster without hosts
\* has returned 503
C13_Witness ==
    /\ Rejected503
    /\ outcome.result.body = "Retry later"
    /\ outcome.locals.collection = <<"e">>
    /\ outcome.hosts_before = <<>>
    /\ outcome.locals.redis_keys = <<>>

\* the positions of a call inside the memoizer of the collection query
InCollectionMemoizer ==
    { "lock_collection", "query_collection", "reconnect_collection",
      "backoff_collection" }

\* C14: in a run with one call at a time, no call is in the memoizer of the
\* collection query for a collection that is in the collection cache, with
\* a cluster id or with None, and the directory has answered at most one
\* query for each collection
C14_CachedCollectionNotQueried ==
    /\ \A t \in Tasks :
          task[t].pc \in InCollectionMemoizer
             => ~LRUContains(known_collections, task[t].collection)
    /\ \A c \in DOMAIN coll_queries : coll_queries[c] <= 1

\* C14 happens: a call for a collection that is cached as None has ended
\* without having been in the memoizer
C14_Witness ==
    /\ Returned
    /\ outcome.locals.collection = <<"g">>
    /\ outcome.locals.conn_id = None
    /\ LRUContains(known_collections, <<"g">>)
    /\ known_collections[<<"g">>] = None
    /\ coll_queries[<<"g">>] = 1

\* C15: with concurrent calls, an attempt whose liveness read succeeded
\* never returns a host whose own key had, in that read, an entry with
\* reachable = false
C15_NeverSelectsReportedDown ==
    (/\ Returned
     /\ outcome.result.kind = "remote"
     /\ ~outcome.locals.redis_error
     /\ Len(outcome.locals.redis_values) > 0)
       => JsonReachable(OwnValue(outcome.result.target)) /= "false"

\* the liveness read brought, for every key, no entry or a value that does
\* not decode
EveryHostMissingOrUndecodable ==
    /\ Attempted
    /\ ~outcome.locals.redis_error
    /\ Len(outcome.locals.redis_values) > 0
    /\ \A i \in 1..Len(outcome.locals.redis_values) :
          \/ outcome.locals.redis_values[i] = "None"
          \/ JsonReachable(outcome.locals.redis_values[i]) = "error"

\* C16: when every host of the list has no entry or an undecodable value,
\* check_availability returns every host of the list and the attempt
\* returns a backend of the cluster
C16_UndecodableIsUnknown ==
    EveryHostMissingOrUndecodable
       => /\ outcome.locals.availability = DeclaredHosts(outcome.locals.cluster_id)
          /\ outcome.end = "return"
          /\ outcome.result.kind = "remote"

\* the attempt that has just ended went through the selection loop on the
\* host deque of its cluster
ConsultedDeque ==
    /\ Attempted
    /\ outcome.locals.hosts /= None
    /\ outcome.result.kind /= "raise"

\* C17 as claimed: every attempt that consults the host deque of a cluster
\* leaves it rotated by exactly one position, whatever its outcome
C17_RotatesExactlyOnce ==
    ConsultedDeque => deques[outcome.locals.hosts] = Rotate(outcome.hosts_before)

\* C17: an attempt that consults the host deque rotates it one position at
\* a time until an available host is at the head: it passes over hosts that
\* are not available, returns the first available one, and when no host is
\* available it rotates once per host, which leaves the deque as it was
C17_RotatesToFirstAvailable ==
    ConsultedDeque =>
        LET before == outcome.hosts_before
            after == deques[outcome.locals.hosts]
            available == outcome.locals.availability
        IN  \E k \in 0..Len(before) :
                /\ after = RotateBy(before, k)
                /\ Len(before) > 0 => k >= 1
                /\ \A j \in 1..(k - 1) : RotateBy(before, j)[1] \notin available
                /\ IF outcome.result.kind = "remote"
                   THEN /\ after[1] \in available
                        /\ outcome.result.target = after[1]
                   ELSE /\ k = Len(before)
                        /\ after = before
                        /\ \A h \in Range(before) : h \notin available

\* C17 happens: an attempt passed over a host that was not available and
\* left the deque rotated by two positions
C17_Witness ==
    /\ ConsultedDeque
    /\ outcome.result.kind = "remote"
    /\ Len(outcome.hosts_before) = 3
    /\ deques[outcome.locals.hosts] = RotateBy(outcome.hosts_before, 2)
    /\ Rotate(outcome.hosts_before)[1] \notin outcome.locals.availability

\* q is list read in a circle from some position on
IsCyclicRotation(q, list) ==
    /\ Len(q) = Len(list)
    /\ \/ Len(list) = 0
       \/ \E k \in 0..(Len(list) - 1) :
             \A i \in 1..Len(list) : q[i] = list[((i - 1 + k) % Len(list)) + 1]

\* C18: the host deque of every cached cluster record is a cyclic rotation
\* of the host list the directory declares for the cluster: no host is
\* dropped, doubled or moved relative to its neighbours
C18_DequeIsRotationOfDeclared ==
    \A cluster_id \in DOMAIN known_clusters :
        IsCyclicRotation(deques[known_clusters[cluster_id]], DeclaredList(cluster_id))

\* C18 happens: after a selection has moved the deque of cluster 1, an
\* attempt on it finds no host and goes to sleep
C18_Witness ==
    /\ Attempted
    /\ outcome.end = "sleep"
    /\ outcome.locals.cluster_id = 1
    /\ Len(outcome.hosts_before) = 3
    /\ deques[known_clusters[1]] /= DeclaredList(1)
    /\ IsCyclicRotation(deques[known_clusters[1]], DeclaredList(1))

\* the positions in the trace of the last step at which a cache is written
CacheWrites == { i \in 1..Len(trace) : trace[i].event = "write" }

\* C19 as claimed: every write to the collection cache and to the cluster
\* cache is made by a task that holds the directory lock at that moment
C19_WriteUnderLock ==
    \A i \in CacheWrites : trace[i].dblock = trace[i].task

\* C19: every write to the collection cache and to the cluster cache is
\* made while nobody holds the directory lock, by the task that has left
\* 'with lock:' just before, in the same run without a suspension (so no
\* other task has run between its release and its write)
C19_WriteRightAfterRelease ==
    \A i \in CacheWrites :
        /\ trace[i].dblock = None
        /\ i > 1
        /\ trace[i - 1].event = "release"
        /\ trace[i - 1].task = trace[i].task
        /\ trace[i - 1].dblock = trace[i].task

\* C19 happens: while another task waits for the lock, a task has written
\* the cluster cache after the answer of the directory
C19_Witness ==
    /\ \E i \in CacheWrites : trace[i].cache = "known_clusters"
    /\ \E t \in Tasks : task[t].pc \in { "lock_collection", "lock_cluster" }
    /\ DOMAIN known_clusters /= {}

\* C20: while the collection table changes and concurrent calls ask for the
\* same collection, an entry of the collection cache stays in the cache,
\* the directory read its value comes from is never followed by a value
\* from an earlier read, and an entry that holds a cluster id keeps that
\* cluster id at every later write
C20_NoStaleOverwrite ==
    [][ \A c \in DOMAIN known_collections :
          /\ c \in DOMAIN known_collections'
          /\ cached_reads'[c] >= cached_reads[c]
          /\ known_collections[c] /= None => known_collections'[c] = known_collections[c]
      ]_vars

\* C20 happens: after the directory has moved collection `a' to another
\* cluster, a call writes the entry of `a', which holds the cluster id that
\* was read before
C20_Witness ==
    /\ \E i \in CacheWrites :
          /\ trace[i].cache = "known_collections"
          /\ task[trace[i].task].collection = <<"a">>
    /\ directory.version = 1
    /\ <<"a">> \in DOMAIN known_collections
    /\ known_collections[<<"a">>] = 1
    /\ DbClusterForCollection(directory.rows, <<"a">>) = 2
    /\ coll_queries[<<"a">>] = 1

\* ---------------------------------------------------------------- C21
\* the positions of the decorator at which task t has a directory query in
\* flight, and at which it replaces the connection
Querying(t) == task[t].pc \in { "query_collection", "query_cluster" }

Reconnecting(t) == task[t].pc \in { "reconnect_collection", "reconnect_cluster" }

\* claim C21: a task that has a directory query in flight or replaces the
\* connection holds the directory mutex, so at most one task has a query in
\* flight; and a task that is anywhere else (it has returned, it has had a
\* cache-check hit, its query has failed with another error) does not hold it
C21_DirectoryMutualExclusion ==
    /\ \A t \in Tasks : (Querying(t) \/ Reconnecting(t)) => dblock = t
    /\ Cardinality({ t \in Tasks : Querying(t) \/ Reconnecting(t) }) <= 1
    /\ \A t \in Tasks : dblock = t => (Querying(t) \/ Reconnecting(t))

\* one task has a query in flight while the other waits for the mutex
C21_Witness ==
    \E t, u \in Tasks :
        /\ Querying(t)
        /\ task[u].pc \in { "lock_collection", "lock_cluster" }

\* a query has failed with an error that is not a connection failure, and
\* the mutex is free
C21_WitnessError ==
    /\ outcome /= NoOutcome
    /\ outcome.result = Raised("DatabaseError")
    /\ dblock = None
\* ---------------------------------------------------------------- C22
\* the positions of the decorator at which task t sleeps before its next round
BackingOff(t) == task[t].pc \in { "backoff_collection", "backoff_cluster" }

\* the positions of a call inside the decorator
InMemoizer(t) ==
    task[t].pc \in { "lock_collection", "query_collection", "reconnect_collection",
                     "backoff_collection", "lock_cluster", "query_cluster",
                     "reconnect_cluster", "backoff_cluster" }

\* a step that takes task t from a failed query to its sleep of one second
\* frees the mutex, the sleep ends before the task goes on, and a step that
\* sends a query of task t follows a cache check that found nothing
C22_RoundStep ==
    \A t \in Tasks :
        /\ (Reconnecting(t) /\ ~Reconnecting(t)')
               => BackingOff(t)' /\ task'[t].nap = 1 /\ dblock' = None
        /\ (BackingOff(t) /\ ~BackingOff(t)') => task[t].nap = 0
        /\ (~Querying(t) /\ task'[t].pc = "query_collection")
               => ~Truthy(LRUGet(known_collections, task'[t].collection, None))
        /\ (~Querying(t) /\ task'[t].pc = "query_cluster")
               => task'[t].cluster_id \notin DOMAIN known_clusters

\* claim C22: after an OperationalError the task frees the mutex, sleeps one
\* second without holding it, and starts its next round at the cache check;
\* the error is never the result of the call, and if the directory ends up
\* answering, the task leaves the decorator
C22_RetryProtocol ==
    /\ [](\A t \in Tasks : BackingOff(t) => dblock /= t)
    /\ [][C22_RoundStep]_vars
    /\ [](outcome /= NoOutcome => outcome.result /= Raised("OperationalError"))
    /\ \A t \in Tasks : (Reconnecting(t) \/ BackingOff(t)) ~> ~InMemoizer(t)

\* one task sleeps after a failed query while the other has a query in flight
C22_Witness ==
    \E t, u \in Tasks : BackingOff(t) /\ task[t].nap = 1 /\ Querying(u)

\* a task sends its query again after a failed one
C22_WitnessRetried ==
    \E t \in Tasks : Querying(t) /\ task[t].retries = 1
\* ---------------------------------------------------------------- C23
\* claim C23: a task replaces the connection only while the connection its
\* failed query ran on is the current one, and the connection has been
\* replaced once for every failed query: no task ever finds, after a failed
\* query, that another task has replaced the connection in the meantime
C23_SingleReconnect ==
    /\ \A t \in Tasks : (Querying(t) \/ Reconnecting(t)) => task[t].conn_id = conn
    /\ conn + Cardinality({ t \in Tasks : Reconnecting(t) }) = 1 + db_errors

\* the connection that replaced a failed one has failed in its turn, under
\* the query of another task, while the first task is back in the decorator
C23_Witness ==
    \E t, u \in Tasks :
        /\ Reconnecting(t)
        /\ conn = 2
        /\ task[u].retries = 1
        /\ task[u].pc \in { "lock_collection", "lock_cluster" }
\* ---------------------------------------------------------------- C24
\* task t waits for socket.gethostbyname(host)
Resolving(t, host) == task[t].pc = "resolve" /\ task[t].it_host = host

\* claim C24: a host name is resolved at most once: no resolution is under
\* way for a host whose address is in _resolve_cache, and no two tasks
\* resolve the same host at the same time
C24_ResolvedAtMostOnce ==
    \A t \in Tasks :
        task[t].pc = "resolve" =>
            /\ task[t].it_host \notin DOMAIN resolve_cache
            /\ \A u \in Tasks \ { t } : ~Resolving(u, task[t].it_host)
\* ---------------------------------------------------------------- C25
\* claim C25: for a hostname that passes the host-suffix check and is not
\* the service domain, the collection name followed by "." and the service
\* domain is the hostname
C25_CollectionRoundTrip ==
    (Attempted /\ CollectionScoped(outcome.locals.hostname)) =>
        outcome.locals.collection \o << "." >> \o NIMBUS_IO_SERVICE_DOMAIN
            = outcome.locals.hostname
\* ---------------------------------------------------------------- C26
\* claim C26: the directory answers at most one query for the nodes of a
\* cluster, there is one host queue for every cluster of the cluster cache
\* and no other, and every task that has the hosts of a cluster has the
\* queue of the cluster cache
C26_SingleClusterRecord ==
    /\ \A c \in DOMAIN clus_queries : clus_queries[c] <= 1
    /\ Len(deques) = Cardinality(DOMAIN known_clusters)
    /\ \A c, d \in DOMAIN known_clusters :
           known_clusters[c] = known_clusters[d] => c = d
    /\ \A t \in Tasks :
           task[t].hosts /= None =>
               /\ task[t].cluster_id \in DOMAIN known_clusters
               /\ task[t].hosts = known_clusters[task[t].cluster_id]

\* task t, which had missed the cluster cache and waited for the mutex,
\* takes the record from the cache check while task u, which has the same
\* queue, is still at work with it
C26_Witness ==
    \E t, u \in Tasks :
        /\ t /= u
        /\ \E i \in 1..Len(trace) :
               /\ trace[i].event = "write"
               /\ trace[i].task = t
               /\ trace[i].cache = "known_clusters"
        /\ task[t].hosts /= None
        /\ task[u].hosts = task[t].hosts
        /\ task[u].pc \in { "resolve", "hmget", "sleep" }
        /\ task[t].pc \in { "resolve", "hmget", "sleep" }
\* ---------------------------------------------------------------- C27
\* claim C27: in a run with one call at a time, while the set A of available
\* hosts of a cluster stays the same and is not empty, the hosts selected by
\* the latest calls, up to |A| of them, are hosts of A and no two of them
\* are the same host: |A| calls in a row select every host of A once
C27_FairAmongAvailable ==
    \A ref \in 1..Len(deques) :
        LET A == history.view[ref]
            selected == history.recent[ref]
        IN  /\ Len(selected) <= Cardinality(A)
            /\ \A i \in 1..Len(selected) : selected[i] \in A
            /\ \A i, j \in 1..Len(selected) : selected[i] = selected[j] => i = j

\* two of three hosts are available, and after two calls that selected the
\* one and the other, a third call under the same set has been answered
C27_Witness ==
    \E ref \in 1..Len(deques) :
        /\ Len(deques[ref]) = 3
        /\ Cardinality(history.view[ref]) = 2
        /\ Len(history.recent[ref]) = 2
        /\ history.selections[ref] >= 3
        /\ Returned
        /\ outcome.result.kind = "remote"
        /\ outcome.locals.hosts = ref
        /\ outcome.locals.availability = history.view[ref]
====
